---- MODULE Spec2Model ----
(***************************************************************************)
(* Zettelkasten plugin: the segmented-id allocator (parseId,               *)
(* generateSiblingId, generateChildId, compareIds), the knowledge-tree     *)
(* layout (calculateNodePositions) and the card-creation workflows of the  *)
(* file manager.                                                           *)
(*                                                                         *)
(* A JavaScript string is a sequence of one-character strings, so that     *)
(* split, parseInt, join, startsWith and localeCompare are computed on the *)
(* characters as the code computes them.                                   *)
(***************************************************************************)
EXTENDS Integers, Sequences, FiniteSets, TLC

VARIABLES
    cards,       \* the main box: the set of card ids (file basenames) in it
    rootCardId,  \* the root id a diagram computation is asked for
    idArgs,      \* the inputs of an allocator call: [a, b, c]
    notice,      \* the Notice the last step showed to the user: [kind, text]
    ret,         \* the outcome of the last call: a record, "fn" names the call
    canvases,    \* the canvas folder: file name -> [exists, nodes, edges, rootCardId]
    handlers,    \* the create/delete event handlers started so far, in order
    explorer,    \* the file explorer: its leaf, view.fileItems, the main-box item
    timers,      \* the pending setTimeout callbacks of the sort patch, in order
    chains       \* per retry chain of the sort patch: the attempts it has made

vars == <<cards, rootCardId, idArgs, notice, ret, canvases, handlers,
          explorer, timers, chains>>

(***************************************************************************)
(* Bounds of the model.                                                    *)
(***************************************************************************)
MaxSegments == 2    \* longest canonical id drawn as an allocator input
MaxNumber == 11     \* largest bare number given to parseId
MaxCards == 7       \* largest card set a diagram is computed for
MaxVaultCards == 4  \* largest main box the card workflows fill
MaxSegValue == 30   \* largest segment a workflow may generate
MaxDepth == 3       \* longest id a workflow may generate
MaxEvents == 2      \* create and delete events whose handlers may overlap
MaxChains == 2      \* retry chains of the sort patch that may be started

(***************************************************************************)
(* Strings.                                                                *)
(***************************************************************************)
Digits == <<"0", "1", "2", "3", "4", "5", "6", "7", "8", "9">>

IsDigit(c) == \E i \in 1..10 : Digits[i] = c

DigitVal(c) == (CHOOSE i \in 1..10 : Digits[i] = c) - 1

\* JavaScript null, as a value no string equals.
Null == <<"null">>

\* !x for x a string or null: null and the empty string are falsy.
IsFalsy(x) == x = Null \/ x = <<>>

\* The value parseInt gives when no digit can be read.  A part of a string
\* split on '-' holds no '-', so parseInt of a part is never negative and -1
\* is free to stand for NaN.
NaN == -1

IsWhite(c) == c = " "

RECURSIVE TrimStart(_)
TrimStart(s) ==
    IF s # <<>> /\ IsWhite(Head(s)) THEN TrimStart(Tail(s)) ELSE s

RECURSIVE DigitPrefixLen(_)
DigitPrefixLen(s) ==
    IF s # <<>> /\ IsDigit(Head(s)) THEN 1 + DigitPrefixLen(Tail(s)) ELSE 0

RECURSIVE DigitsValue(_)
DigitsValue(s) ==
    IF s = <<>> THEN 0
    ELSE 10 * DigitsValue(SubSeq(s, 1, Len(s) - 1)) + DigitVal(s[Len(s)])

\* parseInt(part): leading white space is skipped, a '+' sign is accepted,
\* then the longest run of decimal digits is read; what follows is ignored;
\* NaN when there is no digit.
ParseInt(part) ==
    LET t == TrimStart(part)
        u == IF t # <<>> /\ Head(t) = "+" THEN Tail(t) ELSE t
        n == DigitPrefixLen(u)
    IN  IF n = 0 THEN NaN ELSE DigitsValue(SubSeq(u, 1, n))

\* String(n) for a non-negative integer or NaN.
RECURSIVE NumToStr(_)
NumToStr(n) ==
    IF n = NaN THEN <<"N", "a", "N">>
    ELSE IF n < 10 THEN <<Digits[n + 1]>>
    ELSE NumToStr(n \div 10) \o <<Digits[(n % 10) + 1]>>

\* a + b and Math.floor(a / 2) on numbers that may be NaN.
NumAdd(a, b) == IF a = NaN \/ b = NaN THEN NaN ELSE a + b

FloorHalf(a) == IF a = NaN THEN NaN ELSE a \div 2

\* s.split('-')
RECURSIVE Split(_)
Split(s) ==
    IF \A i \in 1..Len(s) : s[i] # "-" THEN <<s>>
    ELSE LET i == CHOOSE k \in 1..Len(s) :
                      s[k] = "-" /\ \A j \in 1..(k - 1) : s[j] # "-"
         IN  <<SubSeq(s, 1, i - 1)>> \o Split(SubSeq(s, i + 1, Len(s)))

\* parts.join('-') for an array of strings.
RECURSIVE JoinStr(_)
JoinStr(parts) ==
    IF parts = <<>> THEN <<>>
    ELSE IF Len(parts) = 1 THEN parts[1]
    ELSE parts[1] \o <<"-">> \o JoinStr(Tail(parts))

\* nums.join('-') for an array of numbers.
Join(nums) == JoinStr([i \in 1..Len(nums) |-> NumToStr(nums[i])])

\* s.startsWith(p)
StartsWith(s, p) == Len(p) <= Len(s) /\ SubSeq(s, 1, Len(p)) = p

\* The collation order of the characters used: white space, punctuation and
\* symbols sort before digits, digits before letters.
CharOrder ==
    <<" ", "-", "+", "0", "1", "2", "3", "4", "5", "6", "7", "8", "9", "a", "N">>

CharRank(c) == CHOOSE i \in 1..Len(CharOrder) : CharOrder[i] = c

\* a.localeCompare(b): -1, 0 or 1, character by character.
RECURSIVE LocaleCompare(_, _)
LocaleCompare(a, b) ==
    IF a = <<>> /\ b = <<>> THEN 0
    ELSE IF a = <<>> THEN -1
    ELSE IF b = <<>> THEN 1
    ELSE IF CharRank(Head(a)) < CharRank(Head(b)) THEN -1
    ELSE IF CharRank(Head(a)) > CharRank(Head(b)) THEN 1
    ELSE LocaleCompare(Tail(a), Tail(b))

(***************************************************************************)
(* The id allocator.                                                       *)
(***************************************************************************)
\* A value given to parseId: a string or a number.
Str(s) == [type |-> "string", str |-> s, num |-> 0]
Num(n) == [type |-> "number", str |-> <<>>, num |-> n]

\* parseInt(part, radix) for a radix of 2..10; NaN for radix 1.
ParseIntRadix(part, radix) ==
    LET n == DigitPrefixLen(part)
        ok == radix >= 2 /\ n > 0 /\ DigitVal(part[1]) < radix
        RECURSIVE Val(_)
        Val(k) == IF k = 0 \/ DigitVal(part[k]) >= radix THEN 0
                  ELSE radix * Val(k - 1) + DigitVal(part[k])
    IN  IF ok THEN Val(n) ELSE NaN

\* parseId written as id.split('-').map(parseInt): map hands the index to
\* parseInt as its radix.
parseIdMapIndexAsRadix(id) ==
    IF id.type = "number" THEN <<id.num>>
    ELSE LET parts == Split(id.str)
         IN  [i \in 1..Len(parts) |->
                 IF i = 1 THEN ParseInt(parts[i])
                 ELSE ParseIntRadix(parts[i], i - 1)]

\* parseId(id): never throws.
parseId(id) ==
    IF id.type = "number" THEN <<id.num>>
    ELSE LET parts == Split(id.str)
         IN  [i \in 1..Len(parts) |-> ParseInt(parts[i])]

\* The outcome of a call: a returned value or a thrown error.
Return(v) == [threw |-> FALSE, value |-> v, error |-> ""]
Throw(e) == [threw |-> TRUE, value |-> <<>>, error |-> e]

\* generateSiblingId with Math.round in place of Math.floor.
generateSiblingIdRound(currentId, nextId) ==
    LET currentParts == parseId(Str(currentId))
        n == Len(currentParts)
    IN  IF IsFalsy(nextId)
        THEN Return(Join([currentParts EXCEPT ![n] = NumAdd(@, 10)]))
        ELSE LET nextParts == parseId(Str(nextId))
             IN  IF Len(currentParts) # Len(nextParts)
                 THEN Throw("LevelMismatchSibling")
                 ELSE Return(Join([currentParts EXCEPT ![n] =
                          FloorHalf(NumAdd(NumAdd(@, nextParts[Len(nextParts)]), 1))]))

generateSiblingId(currentId, nextId) ==
    LET currentParts == parseId(Str(currentId))
        n == Len(currentParts)
    IN  IF IsFalsy(nextId)
        THEN Return(Join([currentParts EXCEPT ![n] = NumAdd(@, 10)]))
        ELSE LET nextParts == parseId(Str(nextId))
             IN  IF Len(currentParts) # Len(nextParts)
                 THEN Throw("LevelMismatchSibling")
                 ELSE Return(Join([currentParts EXCEPT ![n] =
                          FloorHalf(NumAdd(@, nextParts[Len(nextParts)]))]))

\* generateChildId with Math.round in place of Math.floor.
generateChildIdRound(parentId, firstChildId) ==
    IF IsFalsy(firstChildId)
    THEN Return(parentId \o <<"-", "1", "0">>)
    ELSE LET parentParts == parseId(Str(parentId))
             childParts == parseId(Str(firstChildId))
         IN  IF Len(childParts) # Len(parentParts) + 1
             THEN Throw("LevelMismatchChild")
             ELSE Return(parentId \o <<"-">> \o
                      NumToStr(FloorHalf(NumAdd(childParts[Len(childParts)], 1))))

\* generateChildId that puts the new child ten after the first child.
generateChildIdAfterFirst(parentId, firstChildId) ==
    IF IsFalsy(firstChildId)
    THEN Return(parentId \o <<"-", "1", "0">>)
    ELSE LET parentParts == parseId(Str(parentId))
             childParts == parseId(Str(firstChildId))
         IN  IF Len(childParts) # Len(parentParts) + 1
             THEN Throw("LevelMismatchChild")
             ELSE Return(parentId \o <<"-">> \o
                      NumToStr(NumAdd(childParts[Len(childParts)], 10)))

\* generateChildId without the check of the first child's depth.
generateChildIdNoLevelCheck(parentId, firstChildId) ==
    IF IsFalsy(firstChildId)
    THEN Return(parentId \o <<"-", "1", "0">>)
    ELSE LET childParts == parseId(Str(firstChildId))
         IN  Return(parentId \o <<"-">> \o
                 NumToStr(FloorHalf(childParts[Len(childParts)])))

generateChildId(parentId, firstChildId) ==
    IF IsFalsy(firstChildId)
    THEN Return(parentId \o <<"-", "1", "0">>)
    ELSE LET parentParts == parseId(Str(parentId))
             childParts == parseId(Str(firstChildId))
         IN  IF Len(childParts) # Len(parentParts) + 1
             THEN Throw("LevelMismatchChild")
             ELSE Return(parentId \o <<"-">> \o
                      NumToStr(FloorHalf(childParts[Len(childParts)])))

\* compareIds(a, b): -1, 0 or 1.  Segments are compared as numbers, left to
\* right; an id that is a proper prefix of the other sorts first.
RECURSIVE CompareParts(_, _, _)
CompareParts(pa, pb, i) ==
    IF i > Len(pa) /\ i > Len(pb) THEN 0
    ELSE IF i > Len(pa) THEN -1
    ELSE IF i > Len(pb) THEN 1
    ELSE IF pa[i] < pb[i] THEN -1
    ELSE IF pa[i] > pb[i] THEN 1
    ELSE CompareParts(pa, pb, i + 1)

compareIds(a, b) == CompareParts(parseId(Str(a)), parseId(Str(b)), 1)

\* Array.prototype.sort: a stable sort, by insertion.  cmp is the comparator
\* as a table over the pairs of elements of the list.
Elements(list) == {list[i] : i \in 1..Len(list)}

RECURSIVE InsertSorted(_, _, _)
InsertSorted(x, sorted, cmp) ==
    IF sorted = <<>> THEN <<x>>
    ELSE IF cmp[<<sorted[Len(sorted)], x>>] <= 0 THEN Append(sorted, x)
    ELSE Append(InsertSorted(x, SubSeq(sorted, 1, Len(sorted) - 1), cmp),
                sorted[Len(sorted)])

RECURSIVE SortTable(_, _)
SortTable(list, cmp) ==
    IF list = <<>> THEN <<>>
    ELSE InsertSorted(list[Len(list)],
                      SortTable(SubSeq(list, 1, Len(list) - 1), cmp), cmp)

\* The comparator the patched sort of the main-box folder item uses on the
\* ids of two files.
\* A regression to the string comparison the earlier revision used.
mainBoxSortCompareByLocale(idA, idB) == LocaleCompare(idA, idB)

mainBoxSortCompare(idA, idB) == compareIds(idA, idB)

\* The patched item.sort: after the original sort, vChildren._children is
\* sorted with the comparator above.
patchedSort(children) ==
    SortTable(children,
              [p \in Elements(children) \X Elements(children) |->
                  mainBoxSortCompare(p[1], p[2])])

(***************************************************************************)
(* Inputs of the allocator calls.                                          *)
(***************************************************************************)
SegVals == {0, 1, 4, 9, 10, 11, 20}
PrefixVals == {9, 10}

SegSeqs(n) ==
    {s \in [1..n -> SegVals \cup PrefixVals] :
        \A i \in 1..(n - 1) : s[i] \in PrefixVals}

CanonicalIds == {Join(s) : s \in UNION {SegSeqs(n) : n \in 1..MaxSegments}}

\* Strings that are no canonical id: an empty segment from a trailing, leading
\* or doubled dash, a segment that is no number, a number followed by a
\* letter, the empty string, a redundant leading zero.
MalformedIds ==
    { <<"1", "0", "-">>, <<"-", "1", "0">>, <<"1", "0", "-", "-", "2", "0">>,
      <<"a">>, <<"1", "0", "-", "a">>, <<"1", "a">>, <<>>, <<"0", "1", "0">> }

ThirdIds ==
    { <<"9">>, <<"1", "0">>, <<"1", "0", "-", "9">>, <<"1", "0", "-", "1", "0">>,
      <<"9", "-", "2", "0">>, <<"1", "0", "-", "9", "-", "1">> }

\* A segment that is a valid integer: decimal digits and nothing else.
IsIntegerSegment(p) == p # <<>> /\ \A i \in 1..Len(p) : IsDigit(p[i])

IsCanonicalSegment(p) == IsIntegerSegment(p) /\ (Len(p) > 1 => p[1] # "0")

IsCanonical(s) ==
    s # Null /\ \A i \in 1..Len(Split(s)) : IsCanonicalSegment(Split(s)[i])

(***************************************************************************)
(* The allocator calls, applied to drawn inputs.                           *)
(***************************************************************************)
Outcome(fn, o) ==
    [fn |-> fn, threw |-> o.threw, value |-> o.value, error |-> o.error]

NoCall == Outcome("none", Return(<<>>))

NoNotice == [kind |-> "none", text |-> ""]

\* The files of the canvas folder.  A knowledge-tree canvas is named after its
\* root card; notes.canvas is a canvas without meta.rootCardId.
CanvasFiles == {"10.canvas", "10-20.canvas", "notes.canvas"}

\* The content of a path that holds no file.
NoData == [exists |-> FALSE, nodes |-> <<>>, edges |-> <<>>, rootCardId |-> Null]

NoCanvases == [k \in CanvasFiles |-> NoData]

\* No file explorer: no leaf of type 'file-explorer' in the workspace.
NoExplorer ==
    [leaves |-> FALSE, fileItems |-> FALSE, item |-> FALSE,
     vChildren |-> FALSE, wraps |-> 0, patched |-> FALSE]

InitId ==
    /\ idArgs \in [a : {Str(s) : s \in CanonicalIds \cup MalformedIds}
                         \cup {Num(n) : n \in 0..MaxNumber},
                   b : CanonicalIds \cup {Null, <<>>, <<"1", "0", "-", "a">>},
                   c : ThirdIds]
    /\ cards = {}
    /\ rootCardId = <<>>
    /\ notice = NoNotice
    /\ ret = NoCall
    /\ canvases = NoCanvases
    /\ handlers = <<>>
    /\ explorer = NoExplorer
    /\ timers = <<>>
    /\ chains = <<>>

CallParseId ==
    /\ ret' = Outcome("parseId", Return(parseId(idArgs.a)))
    /\ UNCHANGED <<cards, rootCardId, idArgs, notice, canvases, handlers,
                    explorer, timers, chains>>

CallGenerateSiblingId ==
    /\ idArgs.a.type = "string"
    /\ ret' = Outcome("generateSiblingId",
                      generateSiblingId(idArgs.a.str, idArgs.b))
    /\ UNCHANGED <<cards, rootCardId, idArgs, notice, canvases, handlers,
                    explorer, timers, chains>>

CallGenerateChildId ==
    /\ idArgs.a.type = "string"
    /\ ret' = Outcome("generateChildId",
                      generateChildId(idArgs.a.str, idArgs.b))
    /\ UNCHANGED <<cards, rootCardId, idArgs, notice, canvases, handlers,
                    explorer, timers, chains>>

CallCompareIds ==
    /\ idArgs.a.type = "string"
    /\ idArgs.b # Null
    /\ LET a == idArgs.a.str
           b == idArgs.b
           c == idArgs.c
       IN  ret' = Outcome("compareIds",
                      Return([ab |-> compareIds(a, b), ba |-> compareIds(b, a),
                              bc |-> compareIds(b, c), ac |-> compareIds(a, c)]))
    /\ UNCHANGED <<cards, rootCardId, idArgs, notice, canvases, handlers,
                    explorer, timers, chains>>

CallPatchedSort ==
    /\ idArgs.a.type = "string"
    /\ idArgs.b # Null
    /\ ret' = Outcome("sort",
                      Return(patchedSort(<<idArgs.a.str, idArgs.b, idArgs.c>>)))
    /\ UNCHANGED <<cards, rootCardId, idArgs, notice, canvases, handlers,
                    explorer, timers, chains>>

NextId ==
    \/ CallParseId
    \/ CallGenerateSiblingId
    \/ CallGenerateChildId
    \/ CallCompareIds
    \/ CallPatchedSort

SpecId == InitId /\ [][NextId]_vars

(***************************************************************************)
(* The knowledge-tree layout: calculateNodePositions.                      *)
(***************************************************************************)
LEVEL_WIDTH == 720
NODE_HEIGHT == 300
NODE_WIDTH == 480
MIN_VERTICAL_GAP == 55

\* A y coordinate is a JavaScript number; the midpoint of two of them may be
\* a fraction k / 2^n.  The model holds y in units of 1 / YScale pixel.
YBits == 4
YScale == 2 ^ YBits
Px(n) == n * YScale

Max2(a, b) == IF a >= b THEN a ELSE b
MinOf(S) == CHOOSE x \in S : \A y \in S : x <= y
MaxOf(S) == CHOOSE x \in S : \A y \in S : x >= y

LocaleTable(list) ==
    [p \in Elements(list) \X Elements(list) |-> LocaleCompare(p[1], p[2])]

\* getSortedMainCards: the files of the main box sorted by localeCompare of
\* their ids.  The ids of a card set are distinct, so the order is fixed.
RECURSIVE getSortedMainCards(_)
getSortedMainCards(cardSet) ==
    IF cardSet = {} THEN <<>>
    ELSE LET m == CHOOSE x \in cardSet :
                      \A y \in cardSet : LocaleCompare(x, y) <= 0
         IN  <<m>> \o getSortedMainCards(cardSet \ {m})

\* updateKnowledgeTreeCanvas: the cards that are the root or start with the
\* root id and a dash.
relatedCardsOf(allCards, rootId) ==
    LET Related(c) == c = rootId \/ StartsWith(c, rootId \o <<"-">>)
    IN  SelectSeq(allCards, Related)

\* buildTree: the nodes in the order nodeMapById receives them.  A node's
\* children are the cards that start with its id and a dash and have one
\* segment more, sorted by localeCompare.
RECURSIVE buildTree(_, _, _)
RECURSIVE buildChildren(_, _, _)
\* buildTree that gives the children the level of their parent.
buildTreeSameLevel(relatedCards, cardId, level) ==
    LET IsChild(c) == /\ StartsWith(c, cardId \o <<"-">>)
                      /\ Len(Split(c)) = Len(Split(cardId)) + 1
        childCards == SelectSeq(relatedCards, IsChild)
        node == [id |-> cardId, level |-> level, x |-> level * LEVEL_WIDTH,
                 children |-> SortTable(childCards, LocaleTable(childCards))]
    IN  <<node>> \o buildChildren(relatedCards, childCards, level)

\* buildTree that takes every card under the id's prefix as a child, whatever
\* its number of segments.
buildTreeAnyDepth(relatedCards, cardId, level) ==
    LET IsChild(c) == StartsWith(c, cardId \o <<"-">>)
        childCards == SelectSeq(relatedCards, IsChild)
        node == [id |-> cardId, level |-> level, x |-> level * LEVEL_WIDTH,
                 children |-> SortTable(childCards, LocaleTable(childCards))]
    IN  <<node>> \o buildChildren(relatedCards, childCards, level + 1)

buildTree(relatedCards, cardId, level) ==
    LET IsChild(c) == /\ StartsWith(c, cardId \o <<"-">>)
                      /\ Len(Split(c)) = Len(Split(cardId)) + 1
        childCards == SelectSeq(relatedCards, IsChild)
        node == [id |-> cardId, level |-> level, x |-> level * LEVEL_WIDTH,
                 children |-> SortTable(childCards, LocaleTable(childCards))]
    IN  <<node>> \o buildChildren(relatedCards, childCards, level + 1)

buildChildren(relatedCards, childCards, level) ==
    IF childCards = <<>> THEN <<>>
    ELSE buildTree(relatedCards, Head(childCards), level)
             \o buildChildren(relatedCards, Tail(childCards), level)

\* nodeMapById as a function of the id.
NodeMap(built) ==
    [id \in {built[i].id : i \in 1..Len(built)} |->
        built[CHOOSE i \in 1..Len(built) :
                  built[i].id = id /\ \A j \in (i + 1)..Len(built) : built[j].id # id]]

\* The layout state: y of every node, nextYByLevel, whether every midpoint
\* so far was a multiple of 1 / YScale, and the shifts made so far: for each
\* the node, its centred y, the offset, and y and nextYByLevel before and
\* after the call of shiftChildren.
RECURSIVE shiftChildren(_, _, _, _, _)
RECURSIVE shiftEach(_, _, _, _, _)
\* shiftEach that moves the children and leaves their descendants in place.
shiftEachChildrenOnly(tree, children, level, yOffset, st) ==
    IF children = <<>> THEN st
    ELSE shiftEach(tree, Tail(children), level, yOffset,
                   [st EXCEPT !.y[Head(children)] = @ + yOffset])

shiftEach(tree, children, level, yOffset, st) ==
    IF children = <<>> THEN st
    ELSE LET child == Head(children)
             st1 == [st EXCEPT !.y[child] = @ + yOffset]
             st2 == IF tree[child].children # <<>>
                    THEN shiftChildren(tree, tree[child].children, level + 1,
                                       yOffset, st1)
                    ELSE st1
         IN  shiftEach(tree, Tail(children), level, yOffset, st2)

\* shiftChildren that moves the nodes and leaves nextYByLevel as it was.
shiftChildrenKeepsTracker(tree, children, level, yOffset, st) ==
    LET st1 == shiftEach(tree, children, level, yOffset, st)
    IN  [st1 EXCEPT !.nextYByLevel = st.nextYByLevel]

shiftChildren(tree, children, level, yOffset, st) ==
    LET st1 == shiftEach(tree, children, level, yOffset, st)
    IN  [st1 EXCEPT !.nextYByLevel[level] = @ + yOffset]

RECURSIVE layoutTree(_, _, _, _)
RECURSIVE layoutChildren(_, _, _, _)
layoutChildren(tree, children, level, st) ==
    IF children = <<>> THEN st
    ELSE layoutChildren(tree, Tail(children), level,
                        layoutTree(tree, Head(children), level, st))

\* layoutTree that puts a parent at the y of its topmost child instead of
\* the midpoint of its children.
layoutTreeAtTopChild(tree, node, level, st) ==
    LET st0 == IF level \notin DOMAIN st.nextYByLevel
               THEN [st EXCEPT !.nextYByLevel = (level :> 0) @@ @]
               ELSE st
        children == tree[node].children
    IN  IF children = <<>>
        THEN [st0 EXCEPT !.y[node] = st0.nextYByLevel[level],
                         !.nextYByLevel[level] =
                             @ + Px(NODE_HEIGHT + MIN_VERTICAL_GAP)]
        ELSE LET st1 == layoutChildren(tree, children, level + 1, st0)
                 ys == {st1.y[children[i]] : i \in 1..Len(children)}
                 top == MinOf(ys)
                 st2 == [st1 EXCEPT !.y[node] = top]
                 st3 == IF top < st2.nextYByLevel[level]
                        THEN LET yOffset == st2.nextYByLevel[level] - top
                                 st2s == shiftChildren(tree, children, level + 1,
                                                       yOffset, st2)
                             IN  [st2s EXCEPT !.y[node] = st2s.nextYByLevel[level]]
                        ELSE st2
             IN  [st3 EXCEPT !.nextYByLevel[level] =
                      Max2(@, st3.y[node] + Px(NODE_HEIGHT + MIN_VERTICAL_GAP))]

layoutTree(tree, node, level, st) ==
    LET st0 == IF level \notin DOMAIN st.nextYByLevel
               THEN [st EXCEPT !.nextYByLevel = (level :> 0) @@ @]
               ELSE st
        children == tree[node].children
    IN  IF children = <<>>
        THEN [st0 EXCEPT !.y[node] = st0.nextYByLevel[level],
                         !.nextYByLevel[level] =
                             @ + Px(NODE_HEIGHT + MIN_VERTICAL_GAP)]
        ELSE LET st1 == layoutChildren(tree, children, level + 1, st0)
                 ys == {st1.y[children[i]] : i \in 1..Len(children)}
                 minY == MinOf(ys)
                 maxY == MaxOf(ys)
                 mid == (minY + maxY) \div 2
                 st2 == [st1 EXCEPT !.y[node] = mid,
                                    !.exact = @ /\ (minY + maxY) % 2 = 0]
                 st3 == IF mid < st2.nextYByLevel[level]
                        THEN LET yOffset == st2.nextYByLevel[level] - mid
                                 st2s == shiftChildren(tree, children, level + 1,
                                                       yOffset, st2)
                                 moved == [st2s EXCEPT
                                              !.y[node] = st2s.nextYByLevel[level]]
                                 shift == [node |-> node, level |-> level,
                                           yOffset |-> yOffset, centred |-> mid,
                                           yBefore |-> [n \in DOMAIN tree |-> st2.y[n]],
                                           yAfter |-> [n \in DOMAIN tree |-> moved.y[n]],
                                           nextBefore |->
                                               [l \in DOMAIN st2.nextYByLevel |->
                                                   st2.nextYByLevel[l]],
                                           nextAfter |->
                                               [l \in DOMAIN st2s.nextYByLevel |->
                                                   st2s.nextYByLevel[l]]]
                             IN  [moved EXCEPT !.shifts = Append(st2.shifts, shift)]
                        ELSE st2
             IN  [st3 EXCEPT !.nextYByLevel[level] =
                      Max2(@, st3.y[node] + Px(NODE_HEIGHT + MIN_VERTICAL_GAP))]

EdgeId(from, to) == <<"e", "d", "g", "e", "-">> \o from \o <<"-">> \o to

RECURSIVE EdgesFrom(_, _)
\* The extraction with an edge to the first child of a node only.
EdgesFromFirstChildOnly(built, i) ==
    IF i > Len(built) THEN <<>>
    ELSE (IF built[i].children = <<>> THEN <<>>
          ELSE <<[id |-> EdgeId(built[i].id, built[i].children[1]),
                  fromNode |-> built[i].id, toNode |-> built[i].children[1],
                  fromSide |-> "right", toSide |-> "left"]>>)
         \o EdgesFrom(built, i + 1)

EdgesFrom(built, i) ==
    IF i > Len(built) THEN <<>>
    ELSE [k \in 1..Len(built[i].children) |->
             [id |-> EdgeId(built[i].id, built[i].children[k]),
              fromNode |-> built[i].id, toNode |-> built[i].children[k],
              fromSide |-> "right", toSide |-> "left"]]
         \o EdgesFrom(built, i + 1)

\* calculateNodePositions(relatedCards, rootCardId): {nodes, edges}, with the
\* tree it was read from.  It has no throw statement.
calculateNodePositions(relatedCards, rootId) ==
    IF \A i \in 1..Len(relatedCards) : relatedCards[i] # rootId
    THEN [threw |-> FALSE, error |-> "", exact |-> TRUE, tree |-> <<>>,
          shifts |-> <<>>, value |-> [nodes |-> <<>>, edges |-> <<>>]]
    ELSE LET built == buildTree(relatedCards, rootId, 0)
             tree == NodeMap(built)
             st == layoutTree(tree, rootId, 0,
                       [y |-> [id \in DOMAIN tree |-> 0],
                        nextYByLevel |-> [l \in {} |-> 0],
                        exact |-> TRUE, shifts |-> <<>>])
         IN  [threw |-> FALSE, error |-> "", exact |-> st.exact, tree |-> built,
              shifts |-> st.shifts,
              value |->
                [nodes |-> [i \in 1..Len(built) |->
                               [id |-> built[i].id, type |-> "file",
                                file |-> built[i].id, x |-> built[i].x,
                                y |-> st.y[built[i].id],
                                width |-> NODE_WIDTH, height |-> NODE_HEIGHT]],
                 edges |-> EdgesFrom(built, 1)]]

(***************************************************************************)
(* Diagram computations on drawn card sets.                                *)
(***************************************************************************)
C(a) == Join(a)

CardUniverse ==
    { C(<<10>>), C(<<10, 9>>), C(<<10, 10>>), C(<<10, 20>>),
      C(<<10, 9, 1>>), C(<<10, 10, 1>>), C(<<10, 10, 2>>),
      C(<<10, 20, 10>>), C(<<10, 20, 11>>),
      C(<<10, 20, 10, 1>>), C(<<10, 20, 10, 2>>), C(<<10, 20, 11, 1>>),
      C(<<20>>) }

RootIds == { C(<<10>>), C(<<10, 20>>), C(<<30>>) }

InitLayout ==
    /\ cards \in {S \in SUBSET CardUniverse : Cardinality(S) <= MaxCards}
    /\ rootCardId \in RootIds
    /\ idArgs = [a |-> Str(<<>>), b |-> Null, c |-> <<>>]
    /\ notice = NoNotice
    /\ ret = NoCall
    /\ canvases = NoCanvases
    /\ handlers = <<>>
    /\ explorer = NoExplorer
    /\ timers = <<>>
    /\ chains = <<>>

ComputeDiagram ==
    /\ ret.fn = "none"
    /\ ret' = [fn |-> "calculateNodePositions"] @@
              calculateNodePositions(
                  relatedCardsOf(getSortedMainCards(cards), rootCardId),
                  rootCardId)
    /\ UNCHANGED <<cards, rootCardId, idArgs, notice, canvases, handlers,
                    explorer, timers, chains>>

NextLayout == ComputeDiagram

SpecLayout == InitLayout /\ [][NextLayout]_vars

(***************************************************************************)
(* The card workflows of the file manager, run from the file menu.         *)
(***************************************************************************)
\* The comparator (a, b) => aParts[last] - bParts[last]; a NaN difference
\* counts as 0.
LastSegmentTable(list) ==
    [p \in Elements(list) \X Elements(list) |->
        LET x == parseId(Str(p[1]))[Len(parseId(Str(p[1])))]
            y == parseId(Str(p[2]))[Len(parseId(Str(p[2])))]
        IN  IF x = NaN \/ y = NaN THEN 0 ELSE x - y]

\* findIndex: the first index whose element is x, 0 when there is none.
IndexOf(list, x) ==
    IF \E i \in 1..Len(list) : list[i] = x
    THEN CHOOSE i \in 1..Len(list) :
             list[i] = x /\ \A j \in 1..(i - 1) : list[j] # x
    ELSE 0

\* createNewMainCard: vault.create refuses a path that exists.
createNewMainCard(cardSet, id) ==
    IF id \in cardSet THEN Throw("FileExists") ELSE Return(id)

\* createNewSiblingCard that takes the next sibling in the order of
\* getSortedMainCards, without the sort by the last segment.
createNewSiblingCardInFileOrder(cardSet, currentId) ==
    LET files == getSortedMainCards(cardSet)
        currentParts == parseId(Str(currentId))
        siblingLevel == Len(currentParts)
        parentPrefix == Join(SubSeq(currentParts, 1, siblingLevel - 1))
        IsSibling(id) ==
            LET parts == parseId(Str(id))
            IN  /\ Len(parts) = siblingLevel
                /\ \/ siblingLevel = 1
                   \/ Join(SubSeq(parts, 1, Len(parts) - 1)) = parentPrefix
        filteredSiblings == SelectSeq(files, IsSibling)
        currentSiblingIndex == IndexOf(filteredSiblings, currentId)
        nextId == IF currentSiblingIndex + 1 <= Len(filteredSiblings)
                  THEN filteredSiblings[currentSiblingIndex + 1]
                  ELSE Null
        newId == generateSiblingId(currentId, nextId)
    IN  IF currentSiblingIndex = 0
        THEN [call |-> <<currentId, Null>>] @@ Throw("CurrentCardNotFound")
        ELSE [call |-> <<currentId, nextId>>] @@
             (IF newId.threw THEN newId
              ELSE createNewMainCard(cardSet, newId.value))

\* createNewSiblingCard up to the id it asks createNewMainCard for.
createNewSiblingCard(cardSet, currentId) ==
    LET files == getSortedMainCards(cardSet)
        currentParts == parseId(Str(currentId))
        siblingLevel == Len(currentParts)
        parentPrefix == Join(SubSeq(currentParts, 1, siblingLevel - 1))
        IsSibling(id) ==
            LET parts == parseId(Str(id))
            IN  /\ Len(parts) = siblingLevel
                /\ \/ siblingLevel = 1
                   \/ Join(SubSeq(parts, 1, Len(parts) - 1)) = parentPrefix
        siblings == SelectSeq(files, IsSibling)
        filteredSiblings == SortTable(siblings, LastSegmentTable(siblings))
        currentSiblingIndex == IndexOf(filteredSiblings, currentId)
        nextId == IF currentSiblingIndex + 1 <= Len(filteredSiblings)
                  THEN filteredSiblings[currentSiblingIndex + 1]
                  ELSE Null
        newId == generateSiblingId(currentId, nextId)
    IN  IF currentSiblingIndex = 0
        THEN [call |-> <<currentId, Null>>] @@ Throw("CurrentCardNotFound")
        ELSE [call |-> <<currentId, nextId>>] @@
             (IF newId.threw THEN newId
              ELSE createNewMainCard(cardSet, newId.value))

\* createNewChildCard up to the id it asks createNewMainCard for.
createNewChildCard(cardSet, parentId) ==
    LET files == getSortedMainCards(cardSet)
        parentIndex == IndexOf(files, parentId)
        children == [i \in 1..Len(files) |->
                        i > parentIndex /\ StartsWith(files[i], parentId \o <<"-">>)]
        RECURSIVE Pick(_)
        Pick(i) == IF i > Len(files) THEN <<>>
                   ELSE (IF children[i] THEN <<files[i]>> ELSE <<>>) \o Pick(i + 1)
        filteredChildren == SortTable(Pick(1), LastSegmentTable(Pick(1)))
        firstChildId == IF Len(filteredChildren) > 0 THEN filteredChildren[1]
                        ELSE Null
        newId == generateChildId(parentId, firstChildId)
    IN  IF parentIndex = 0
        THEN [call |-> <<parentId, Null>>] @@ Throw("ParentCardNotFound")
        ELSE [call |-> <<parentId, firstChildId>>] @@
             (IF newId.threw THEN newId
              ELSE createNewMainCard(cardSet, newId.value))

\* A workflow may fill the main box up to the bounds of the model.
WithinBounds(cardSet, o) ==
    o.threw \/ ( /\ Cardinality(cardSet) < MaxVaultCards
                 /\ Len(parseId(Str(o.value))) <= MaxDepth
                 /\ \A i \in 1..Len(parseId(Str(o.value))) :
                        parseId(Str(o.value))[i] <= MaxSegValue )

\* The menu item's onClick: try { await workflow } catch { new Notice(...) }.
\* createNewMainCard shows its own Notice once the file is created.
MenuClick(fn, failure, target, o) ==
    /\ WithinBounds(cards, o)
    /\ cards' = IF o.threw THEN cards ELSE cards \cup {o.value}
    /\ notice' = IF o.threw THEN [kind |-> failure, text |-> o.error]
                 ELSE [kind |-> "created", text |-> ""]
    /\ ret' = [fn |-> fn, target |-> target, before |-> cards] @@ o
    /\ UNCHANGED <<rootCardId, idArgs, canvases, handlers,
                    explorer, timers, chains>>

ClickNewSiblingCard ==
    \E currentFile \in cards :
        \E o \in {createNewSiblingCard(cards, currentFile)} :
            MenuClick("createNewSiblingCard", "siblingFailed", currentFile, o)

ClickNewChildCard ==
    \E parentFile \in cards :
        \E o \in {createNewChildCard(cards, parentFile)} :
            MenuClick("createNewChildCard", "childFailed", parentFile, o)

\* The cards the user has put into the main box before the workflows run.
SeedCards == { C(<<10>>), C(<<11>>), C(<<10, 10>>), C(<<10, 10, 5>>) }

Init ==
    /\ cards \in SUBSET SeedCards
    /\ rootCardId = <<>>
    /\ idArgs = [a |-> Str(<<>>), b |-> Null, c |-> <<>>]
    /\ notice = NoNotice
    /\ ret = NoCall
    /\ canvases = NoCanvases
    /\ handlers = <<>>
    /\ explorer = NoExplorer
    /\ timers = <<>>
    /\ chains = <<>>

Next ==
    \/ ClickNewSiblingCard
    \/ ClickNewChildCard

Spec == Init /\ [][Next]_vars

(***************************************************************************)
(* The knowledge-tree canvases and the vault's create and delete events,   *)
(* one event at a time: the handler of an event has run to its end before  *)
(* the next change of the vault.                                           *)
(***************************************************************************)

\* meta.rootCardId of the knowledge-tree canvases.
CanvasRoot == ("10.canvas" :> C(<<10>>)) @@ ("10-20.canvas" :> C(<<10, 20>>))

\* The cards that are created and deleted while the canvases exist.
CanvasCards ==
    { C(<<10>>), C(<<10, 10>>), C(<<10, 20>>), C(<<10, 20, 10>>), C(<<20>>) }

\* cardId === rootCardId || cardId.startsWith(rootCardId + '-')
IsRelated(cardId, rootId) ==
    cardId = rootId \/ StartsWith(cardId, rootId \o <<"-">>)

\* updateKnowledgeTreeCanvas that adds the computed nodes and edges to the
\* stored ones.
updateKnowledgeTreeCanvasAppending(data, cardSet) ==
    IF IsFalsy(data.rootCardId) THEN data
    ELSE LET o == calculateNodePositions(
                      relatedCardsOf(getSortedMainCards(cardSet), data.rootCardId),
                      data.rootCardId)
         IN  [data EXCEPT !.nodes = @ \o o.value.nodes,
                          !.edges = @ \o o.value.edges]

\* updateKnowledgeTreeCanvas on the content of a canvas file: nodes and edges
\* are replaced by the computed ones, meta is kept.
updateKnowledgeTreeCanvas(data, cardSet) ==
    IF IsFalsy(data.rootCardId) THEN data
    ELSE LET o == calculateNodePositions(
                      relatedCardsOf(getSortedMainCards(cardSet), data.rootCardId),
                      data.rootCardId)
         IN  [data EXCEPT !.nodes = o.value.nodes, !.edges = o.value.edges]

\* updateAllKnowledgeTrees that updates every knowledge-tree canvas.
updateAllKnowledgeTreesEveryCanvas(cvs, cardSet, newCard) ==
    [k \in DOMAIN cvs |->
        IF ~cvs[k].exists \/ IsFalsy(cvs[k].rootCardId) THEN cvs[k]
        ELSE updateKnowledgeTreeCanvas(cvs[k], cardSet)]

\* updateAllKnowledgeTrees that updates a canvas for its root card only.
updateAllKnowledgeTreesForRootOnly(cvs, cardSet, newCard) ==
    [k \in DOMAIN cvs |->
        IF ~cvs[k].exists \/ IsFalsy(cvs[k].rootCardId) THEN cvs[k]
        ELSE IF newCard = cvs[k].rootCardId
        THEN updateKnowledgeTreeCanvas(cvs[k], cardSet)
        ELSE cvs[k]]

\* updateAllKnowledgeTrees: the loop over the files of the canvas folder.  An
\* iteration reads and writes its own file only.
updateAllKnowledgeTrees(cvs, cardSet, newCard) ==
    [k \in DOMAIN cvs |->
        IF ~cvs[k].exists \/ IsFalsy(cvs[k].rootCardId) THEN cvs[k]
        ELSE IF IsRelated(newCard, cvs[k].rootCardId)
        THEN updateKnowledgeTreeCanvas(cvs[k], cardSet)
        ELSE cvs[k]]

\* removeNodeFromKnowledgeTree that leaves the edges as they are.
removeNodeFromKnowledgeTreeKeepsEdges(data, nodeId) ==
    LET KeepNode(n) == n.id # nodeId
    IN  [data EXCEPT !.nodes = SelectSeq(@, KeepNode)]

\* removeNodeFromKnowledgeTree on the content of a canvas file.
removeNodeFromKnowledgeTree(data, nodeId) ==
    LET KeepNode(n) == n.id # nodeId
        KeepEdge(e) == e.fromNode # nodeId /\ e.toNode # nodeId
    IN  [data EXCEPT !.nodes = SelectSeq(@, KeepNode),
                     !.edges = SelectSeq(@, KeepEdge)]

\* updateAllKnowledgeTreesOnDelete that removes the node and does not lay
\* the remaining nodes out again.
updateAllKnowledgeTreesOnDeleteRemoveOnly(cvs, cardSet, deleted) ==
    [canvases |->
        [k \in DOMAIN cvs |->
            IF ~cvs[k].exists \/ IsFalsy(cvs[k].rootCardId) THEN cvs[k]
            ELSE IF deleted = cvs[k].rootCardId THEN cvs[k]
            ELSE IF StartsWith(deleted, cvs[k].rootCardId \o <<"-">>)
            THEN removeNodeFromKnowledgeTree(cvs[k], deleted)
            ELSE cvs[k]],
     removed |->
        [k \in DOMAIN cvs |->
            IF ~cvs[k].exists \/ IsFalsy(cvs[k].rootCardId) THEN cvs[k]
            ELSE IF deleted = cvs[k].rootCardId THEN cvs[k]
            ELSE IF StartsWith(deleted, cvs[k].rootCardId \o <<"-">>)
            THEN removeNodeFromKnowledgeTree(cvs[k], deleted)
            ELSE cvs[k]],
     warned |-> {k \in DOMAIN cvs : /\ cvs[k].exists
                                    /\ ~IsFalsy(cvs[k].rootCardId)
                                    /\ deleted = cvs[k].rootCardId}]

\* updateAllKnowledgeTreesOnDelete that treats the root like any other card of
\* the tree.
updateAllKnowledgeTreesOnDeleteRootToo(cvs, cardSet, deleted) ==
    [canvases |->
        [k \in DOMAIN cvs |->
            IF ~cvs[k].exists \/ IsFalsy(cvs[k].rootCardId) THEN cvs[k]
            ELSE IF IsRelated(deleted, cvs[k].rootCardId)
            THEN updateKnowledgeTreeCanvas(
                     removeNodeFromKnowledgeTree(cvs[k], deleted), cardSet)
            ELSE cvs[k]],
     removed |->
        [k \in DOMAIN cvs |->
            IF ~cvs[k].exists \/ IsFalsy(cvs[k].rootCardId) THEN cvs[k]
            ELSE IF IsRelated(deleted, cvs[k].rootCardId)
            THEN removeNodeFromKnowledgeTree(cvs[k], deleted)
            ELSE cvs[k]],
     warned |-> {}]

\* updateAllKnowledgeTreesOnDelete: the canvases after the loop, the canvases
\* as removeNodeFromKnowledgeTree wrote them before the new layout, and the
\* canvases a root-deleted warning was shown for.
updateAllKnowledgeTreesOnDelete(cvs, cardSet, deleted) ==
    [canvases |->
        [k \in DOMAIN cvs |->
            IF ~cvs[k].exists \/ IsFalsy(cvs[k].rootCardId) THEN cvs[k]
            ELSE IF deleted = cvs[k].rootCardId THEN cvs[k]
            ELSE IF StartsWith(deleted, cvs[k].rootCardId \o <<"-">>)
            THEN updateKnowledgeTreeCanvas(
                     removeNodeFromKnowledgeTree(cvs[k], deleted), cardSet)
            ELSE cvs[k]],
     removed |->
        [k \in DOMAIN cvs |->
            IF ~cvs[k].exists \/ IsFalsy(cvs[k].rootCardId) THEN cvs[k]
            ELSE IF deleted = cvs[k].rootCardId THEN cvs[k]
            ELSE IF StartsWith(deleted, cvs[k].rootCardId \o <<"-">>)
            THEN removeNodeFromKnowledgeTree(cvs[k], deleted)
            ELSE cvs[k]],
     warned |-> {k \in DOMAIN cvs : /\ cvs[k].exists
                                    /\ ~IsFalsy(cvs[k].rootCardId)
                                    /\ deleted = cvs[k].rootCardId}]

\* A canvas the user drew: one node, no meta.rootCardId.
PlainCanvas ==
    [exists |-> TRUE,
     nodes |-> <<[id |-> <<"a">>, type |-> "file", file |-> <<"a">>,
                  x |-> 0, y |-> 0, width |-> 400, height |-> 400]>>,
     edges |-> <<>>, rootCardId |-> Null]

\* A knowledge-tree canvas as createKnowledgeTreeCanvas leaves it for the
\* cards of the time.
TreeCanvas(rootId, cardSet) ==
    updateKnowledgeTreeCanvas(
        [exists |-> TRUE, nodes |-> <<>>, edges |-> <<>>, rootCardId |-> rootId],
        cardSet)

\* The canvas file of the knowledge tree of a root card.
CanvasNameOf(rootId) == CHOOSE k \in DOMAIN CanvasRoot : CanvasRoot[k] = rootId

\* The content createKnowledgeTreeCanvas creates the file with.
Placeholder(rootId) ==
    [exists |-> TRUE,
     nodes |-> <<[id |-> <<"r", "o", "o", "t">>, type |-> "file",
                  file |-> rootId, x |-> 0, y |-> 0,
                  width |-> 400, height |-> 400]>>,
     edges |-> <<>>, rootCardId |-> rootId]

\* The awaits of createKnowledgeTreeCanvas that follow vault.create, any of
\* which may reject: leaf.openFile and updateKnowledgeTreeCanvas (its reads,
\* getSortedMainCards, its write).
CreationFailures == {"none", "openFile", "update"}

\* createKnowledgeTreeCanvas that does not look for an existing file.
createKnowledgeTreeCanvasOverwriting(cvs, cardSet, rootId, failAt) ==
    LET k == CanvasNameOf(rootId)
        created == [cvs EXCEPT ![k] = Placeholder(rootId)]
    IN  IF failAt = "openFile"
        THEN [canvases |-> created] @@ Throw("OpenFileFailed")
        ELSE IF failAt = "update"
        THEN [canvases |-> created] @@ Throw("UpdateFailed")
        ELSE [canvases |-> [created EXCEPT
                               ![k] = updateKnowledgeTreeCanvas(
                                          Placeholder(rootId), cardSet)]]
             @@ Return(rootId)

\* createKnowledgeTreeCanvas(rootFile): the canvases it leaves and whether it
\* threw.  Nothing after vault.create is in a try block.
createKnowledgeTreeCanvas(cvs, cardSet, rootId, failAt) ==
    LET k == CanvasNameOf(rootId)
        created == [cvs EXCEPT ![k] = Placeholder(rootId)]
    IN  IF cvs[k].exists
        THEN [canvases |-> cvs] @@ Throw("CanvasExists")
        ELSE IF failAt = "openFile"
        THEN [canvases |-> created] @@ Throw("OpenFileFailed")
        ELSE IF failAt = "update"
        THEN [canvases |-> created] @@ Throw("UpdateFailed")
        ELSE [canvases |-> [created EXCEPT
                               ![k] = updateKnowledgeTreeCanvas(
                                          Placeholder(rootId), cardSet)]]
             @@ Return(rootId)

InitCanvas ==
    /\ cards \in SUBSET CanvasCards
    /\ \E made \in SUBSET {k \in DOMAIN CanvasRoot : CanvasRoot[k] \in cards} :
           canvases = [k \in CanvasFiles |->
                          IF k \in made THEN TreeCanvas(CanvasRoot[k], cards)
                          ELSE IF k \in DOMAIN CanvasRoot THEN NoData
                          ELSE PlainCanvas]
    /\ rootCardId = <<>>
    /\ idArgs = [a |-> Str(<<>>), b |-> Null, c |-> <<>>]
    /\ notice = NoNotice
    /\ ret = NoCall
    /\ handlers = <<>>
    /\ explorer = NoExplorer
    /\ timers = <<>>
    /\ chains = <<>>

\* vault.on('create'): a card file appears in the main box and the handler
\* runs updateAllKnowledgeTrees.
CreateCardEvent ==
    \E id \in CanvasCards \ cards :
        /\ cards' = cards \cup {id}
        /\ canvases' = updateAllKnowledgeTrees(canvases, cards \cup {id}, id)
        /\ notice' = NoNotice
        /\ ret' = [fn |-> "create", target |-> id, canvas |-> "",
                   stored |-> canvases]
        /\ UNCHANGED <<rootCardId, idArgs, handlers,
                    explorer, timers, chains>>

\* vault.on('delete'): a card file leaves the main box and the handler runs
\* updateAllKnowledgeTreesOnDelete.
DeleteCardEvent ==
    \E id \in cards :
        \E o \in {updateAllKnowledgeTreesOnDelete(canvases, cards \ {id}, id)} :
            /\ cards' = cards \ {id}
            /\ canvases' = o.canvases
            /\ notice' = IF o.warned = {} THEN NoNotice
                         ELSE [kind |-> "rootDeleted",
                               text |-> CHOOSE k \in o.warned : TRUE]
            /\ ret' = [fn |-> "delete", target |-> id, canvas |-> "",
                       stored |-> canvases, removed |-> o.removed]
            /\ UNCHANGED <<rootCardId, idArgs, handlers,
                    explorer, timers, chains>>

\* A call of updateKnowledgeTreeCanvas on a canvas file, the cards unchanged.
CallUpdateKnowledgeTreeCanvas ==
    \E k \in CanvasFiles :
        /\ canvases[k].exists
        /\ canvases' = [canvases EXCEPT
                           ![k] = updateKnowledgeTreeCanvas(@, cards)]
        /\ notice' = NoNotice
        /\ ret' = [fn |-> "updateKnowledgeTreeCanvas", target |-> <<>>,
                   canvas |-> k, stored |-> canvases]
        /\ UNCHANGED <<cards, rootCardId, idArgs, handlers,
                    explorer, timers, chains>>

\* The file-menu item that shows the knowledge tree of a card in a canvas:
\* try { await createKnowledgeTreeCanvas(file) } catch { new Notice(...) }.
ClickShowKnowledgeTree ==
    \E rootId \in cards, failAt \in CreationFailures :
        /\ \E k \in DOMAIN CanvasRoot : CanvasRoot[k] = rootId
        /\ \E o \in {createKnowledgeTreeCanvas(canvases, cards, rootId, failAt)} :
               /\ canvases' = o.canvases
               /\ notice' = IF o.threw
                            THEN [kind |-> "canvasFailed", text |-> o.error]
                            ELSE NoNotice
               /\ ret' = [fn |-> "createKnowledgeTreeCanvas", target |-> rootId,
                          canvas |-> CanvasNameOf(rootId), stored |-> canvases,
                          threw |-> o.threw, error |-> o.error]
        /\ UNCHANGED <<cards, rootCardId, idArgs, handlers,
                    explorer, timers, chains>>

NextCanvas ==
    \/ ClickShowKnowledgeTree
    \/ CreateCardEvent
    \/ DeleteCardEvent
    \/ CallUpdateKnowledgeTreeCanvas

SpecCanvas == InitCanvas /\ [][NextCanvas]_vars

(***************************************************************************)
(* Overlapping handlers.  A handler is an async function: at an await on   *)
(* the vault it gives way, and the vault may change and other handlers may *)
(* run before the read or the write it waits for has taken place.  The     *)
(* folder holds the one knowledge-tree canvas of the root 10.              *)
(***************************************************************************)
OverlapCanvas == "10.canvas"

\* The cards created and deleted while handlers run; the root stays.
OverlapCards == { C(<<10, 10>>), C(<<10, 20>>) }

\* A handler that has just been called by the vault.
StartedHandler(ev, id) ==
    [ev |-> ev, card |-> id, pc |-> "getRoot", data |-> NoData]

\* const rootCardId = await this.getCanvasRootCardId(file), and the tests of
\* the loop body on it: where the handler goes next.
AfterGetRoot(h, stored) ==
    IF IsFalsy(stored.rootCardId) THEN "done"
    ELSE IF h.ev = "create"
    THEN (IF IsRelated(h.card, stored.rootCardId) THEN "updRead" ELSE "done")
    ELSE IF h.card = stored.rootCardId THEN "warn"
    ELSE IF StartsWith(h.card, stored.rootCardId \o <<"-">>) THEN "rmRead"
    ELSE "done"

\* One step of a handler between two awaits on the vault.
\*   getRoot   getCanvasRootCardId has read the file
\*   rmRead    removeNodeFromKnowledgeTree has read the file and filtered it
\*   rmWrite   its saveCanvasData has written the file
\*   updRead   updateKnowledgeTreeCanvas has read the file, listed the cards
\*             and computed the diagram
\*   updWrite  its saveCanvasData has written the file
HandlerStep ==
    \E i \in 1..Len(handlers) :
        LET h == handlers[i]
            stored == canvases[OverlapCanvas]
        IN  /\ h.pc # "done"
            /\ handlers' =
                   [handlers EXCEPT ![i] =
                       CASE h.pc = "getRoot" ->
                                [h EXCEPT !.pc =
                                    IF AfterGetRoot(h, stored) = "warn"
                                    THEN "done" ELSE AfterGetRoot(h, stored)]
                         [] h.pc = "rmRead" ->
                                [h EXCEPT !.pc = "rmWrite",
                                          !.data = removeNodeFromKnowledgeTree(
                                                       stored, h.card)]
                         [] h.pc = "rmWrite" -> [h EXCEPT !.pc = "updRead"]
                         [] h.pc = "updRead" ->
                                [h EXCEPT !.pc = IF IsFalsy(stored.rootCardId)
                                                 THEN "done" ELSE "updWrite",
                                          !.data = updateKnowledgeTreeCanvas(
                                                       stored, cards)]
                         [] h.pc = "updWrite" -> [h EXCEPT !.pc = "done"]]
            /\ canvases' =
                   IF h.pc \in {"rmWrite", "updWrite"}
                   THEN [canvases EXCEPT ![OverlapCanvas] = h.data]
                   ELSE canvases
            /\ notice' =
                   IF h.pc = "getRoot" /\ AfterGetRoot(h, stored) = "warn"
                   THEN [kind |-> "rootDeleted", text |-> OverlapCanvas]
                   ELSE NoNotice
            /\ UNCHANGED <<cards, rootCardId, idArgs, ret,
                    explorer, timers, chains>>

\* vault.create of a card: the create handler is called.
VaultCreatesCard ==
    \E id \in OverlapCards \ cards :
        /\ Len(handlers) < MaxEvents
        /\ cards' = cards \cup {id}
        /\ handlers' = Append(handlers, StartedHandler("create", id))
        /\ notice' = NoNotice
        /\ UNCHANGED <<rootCardId, idArgs, ret, canvases,
                    explorer, timers, chains>>

\* vault.delete of a card: the delete handler is called.
VaultDeletesCard ==
    \E id \in OverlapCards \cap cards :
        /\ Len(handlers) < MaxEvents
        /\ cards' = cards \ {id}
        /\ handlers' = Append(handlers, StartedHandler("delete", id))
        /\ notice' = NoNotice
        /\ UNCHANGED <<rootCardId, idArgs, ret, canvases,
                    explorer, timers, chains>>

InitOverlap ==
    /\ \E present \in SUBSET OverlapCards :
           /\ cards = {C(<<10>>)} \cup present
           /\ canvases = [NoCanvases EXCEPT
                             ![OverlapCanvas] =
                                 TreeCanvas(C(<<10>>), {C(<<10>>)} \cup present)]
    /\ rootCardId = <<>>
    /\ idArgs = [a |-> Str(<<>>), b |-> Null, c |-> <<>>]
    /\ notice = NoNotice
    /\ ret = NoCall
    /\ handlers = <<>>
    /\ explorer = NoExplorer
    /\ timers = <<>>
    /\ chains = <<>>

NextOverlap ==
    \/ VaultCreatesCard
    \/ VaultDeletesCard
    \/ HandlerStep

SpecOverlap == InitOverlap /\ [][NextOverlap]_vars

(***************************************************************************)
(* Properties of the allocator.                                            *)
(***************************************************************************)
Last(seq) == seq[Len(seq)]

Segs(s) == parseId(Str(s))

\* s sorts before t in the order of integer tuples: at the first place where
\* they differ s is smaller, or s is a proper prefix of t.
TupleLess(s, t) ==
    \E k \in 1..(Len(s) + 1) :
        /\ k - 1 <= Len(t)
        /\ \A i \in 1..(k - 1) : s[i] = t[i]
        /\ \/ k = Len(s) + 1 /\ Len(t) >= k
           \/ k <= Len(s) /\ k <= Len(t) /\ s[k] < t[k]

Id10 == <<"1", "0">>
Id11 == <<"1", "1">>
Id15 == <<"1", "5">>
Id20 == <<"2", "0">>
Id10x2 == <<"1", "0", "-", "2">>
Id10x4 == <<"1", "0", "-", "4">>
Id10x10 == <<"1", "0", "-", "1", "0">>
Id10x20 == <<"1", "0", "-", "2", "0">>
Id10x30 == <<"1", "0", "-", "3", "0">>

\* C2: generateSiblingId(currentId, nextId) on canonical ids returns currentId
\* with only its last segment changed: currentLast + 10 when nextId is absent,
\* floor((currentLast + nextLast) / 2) when nextId has as many segments as
\* currentId; ("10", null) gives "20", ("10-20", null) gives "10-30" and
\* ("10", "20") gives "15".
C2_SiblingIdChangesLastSegmentOnly ==
    (ret.fn = "generateSiblingId" /\ IsCanonical(idArgs.a.str)) =>
        LET cur == Segs(idArgs.a.str)
            n == Len(cur)
            new == Segs(ret.value)
        IN  /\ idArgs.b = Null =>
                /\ ~ret.threw
                /\ ret.value = Join([cur EXCEPT ![n] = Last(cur) + 10])
                /\ Len(new) = n
                /\ \A i \in 1..(n - 1) : new[i] = cur[i]
                /\ new[n] = cur[n] + 10
            /\ (IsCanonical(idArgs.b) /\ Len(Segs(idArgs.b)) = n) =>
                /\ ~ret.threw
                /\ ret.value = Join([cur EXCEPT ![n] =
                                  (Last(cur) + Last(Segs(idArgs.b))) \div 2])
                /\ Len(new) = n
                /\ \A i \in 1..(n - 1) : new[i] = cur[i]
                /\ 2 * new[n] <= cur[n] + Last(Segs(idArgs.b))
                /\ 2 * new[n] + 1 >= cur[n] + Last(Segs(idArgs.b))
            /\ (idArgs.a.str = Id10 /\ idArgs.b = Null) => ret.value = Id20
            /\ (idArgs.a.str = Id10x20 /\ idArgs.b = Null) => ret.value = Id10x30
            /\ (idArgs.a.str = Id10 /\ idArgs.b = Id20) => ret.value = Id15

C2_Witness ==
    /\ ret.fn = "generateSiblingId"
    /\ idArgs.a.str = <<"1", "0", "-", "9">>
    /\ idArgs.b = Id10x20
    /\ ret.value = <<"1", "0", "-", "1", "4">>

\* C3: when the midpoint of the two last segments equals the current last
\* segment (next = current + 1), generateSiblingId flags the collision as an
\* error and does not return an id equal to currentId.
C3_AdjacentCollisionIsFlagged ==
    ( /\ ret.fn = "generateSiblingId"
      /\ IsCanonical(idArgs.a.str)
      /\ IsCanonical(idArgs.b)
      /\ Len(Segs(idArgs.b)) = Len(Segs(idArgs.a.str))
      /\ Last(Segs(idArgs.b)) = Last(Segs(idArgs.a.str)) + 1 )
    => (ret.threw /\ ret.value # idArgs.a.str)

\* C4: generateChildId(parentId, firstChildId) on canonical ids returns
\* parentId with one segment appended: 10 when firstChildId is absent,
\* floor(firstChildLast / 2) when firstChildId has one segment more than
\* parentId; ("10", null) gives "10-10", ("10", "10-20") gives "10-10" and
\* ("10", "10-4") gives "10-2".
C4_ChildIdAppendsOneSegment ==
    (ret.fn = "generateChildId" /\ IsCanonical(idArgs.a.str)) =>
        LET par == Segs(idArgs.a.str)
            n == Len(par)
            new == Segs(ret.value)
        IN  /\ idArgs.b = Null =>
                /\ ~ret.threw
                /\ new = Append(par, 10)
                /\ ret.value = Join(Append(par, 10))
            /\ (IsCanonical(idArgs.b) /\ Len(Segs(idArgs.b)) = n + 1) =>
                /\ ~ret.threw
                /\ new = Append(par, Last(Segs(idArgs.b)) \div 2)
                /\ ret.value = Join(Append(par, Last(Segs(idArgs.b)) \div 2))
            /\ (idArgs.a.str = Id10 /\ idArgs.b = Null) => ret.value = Id10x10
            /\ (idArgs.a.str = Id10 /\ idArgs.b = Id10x20) => ret.value = Id10x10
            /\ (idArgs.a.str = Id10 /\ idArgs.b = Id10x4) => ret.value = Id10x2

C4_Witness ==
    /\ ret.fn = "generateChildId"
    /\ idArgs.a.str = Id10
    /\ idArgs.b = <<"1", "0", "-", "9">>
    /\ ret.value = Id10x4

\* C6: parseId fails with a MalformedId error whenever a dash-separated
\* segment of its input is not a valid integer (an empty segment included);
\* it returns no segment list for such input.
C6_MalformedIdIsRejected ==
    ( /\ ret.fn = "parseId"
      /\ idArgs.a.type = "string"
      /\ \E i \in 1..Len(Split(idArgs.a.str)) :
             ~IsIntegerSegment(Split(idArgs.a.str)[i]) )
    => ret.threw

\* C7: for a canonical id string s, joining parseId(s) with '-' gives s again;
\* parseId of a bare number n gives the single-segment id [n].
C7_ParseIdRoundTrip ==
    ret.fn = "parseId" =>
        /\ (idArgs.a.type = "string" /\ IsCanonical(idArgs.a.str)) =>
               /\ ~ret.threw
               /\ Join(ret.value) = idArgs.a.str
               /\ Len(ret.value) = Len(Split(idArgs.a.str))
        /\ idArgs.a.type = "number" =>
               (~ret.threw /\ ret.value = <<idArgs.a.num>>)
        /\ idArgs.a = Str(Id10x20) => ret.value = <<10, 20>>

C7_Witness ==
    /\ ret.fn = "parseId"
    /\ idArgs.a = Str(<<"9", "-", "1", "1">>)
    /\ ret.value = <<9, 11>>

Nodes == ret.value.nodes

NodeOf(id) == Nodes[CHOOSE i \in 1..Len(Nodes) : Nodes[i].id = id]

Dist(a, b) == IF a >= b THEN a - b ELSE b - a

\* C1: in the output of calculateNodePositions any two distinct nodes at the
\* same level (same x) have y values at least NODE_HEIGHT = 300 apart, so
\* their ranges [y, y + NODE_HEIGHT) do not overlap.
C1_SameLevelNodesDoNotOverlap ==
    ret.fn = "calculateNodePositions" =>
        \A i, j \in 1..Len(Nodes) :
            (i # j /\ Nodes[i].x = Nodes[j].x) =>
                /\ Nodes[i].height = 300
                /\ Dist(Nodes[i].y, Nodes[j].y) >= Px(300)

\* The children of 10-20 were shifted down by half a slot and the child of
\* 10-9 was placed below them, one slot under the lower one.
C1_Witness ==
    /\ ret.fn = "calculateNodePositions"
    /\ rootCardId = Id10
    /\ cards = { Id10, Id10x10, Id10x20, C(<<10, 20, 10>>), C(<<10, 20, 11>>),
                 C(<<10, 9>>), C(<<10, 9, 1>>) }
    /\ NodeOf(Id10x10).y = 0
    /\ 2 * NodeOf(C(<<10, 20, 10>>)).y = Px(355)
    /\ 2 * NodeOf(C(<<10, 20, 11>>)).y = Px(1065)
    /\ 2 * NodeOf(C(<<10, 9, 1>>)).y = Px(1775)

\* C9: in the tree built for the layout the children of every node are in
\* the numeric order of their ids (10-9 before 10-10), and siblings are
\* placed top to bottom in that order.
C9_ChildrenInNumericOrder ==
    ret.fn = "calculateNodePositions" =>
        \A n \in 1..Len(ret.tree) :
            LET children == ret.tree[n].children
            IN  \A i, j \in 1..Len(children) :
                    i < j =>
                        /\ TupleLess(Segs(children[i]), Segs(children[j]))
                        /\ NodeOf(children[i]).y < NodeOf(children[j]).y

\* C10: computing a diagram for a root id that no card has fails with an
\* error; no node/edge result is returned.
C10_MissingRootFails ==
    (ret.fn = "calculateNodePositions" /\ rootCardId \notin cards) => ret.threw

\* ------------------------------------------------------------------------
\* Properties of the create-sibling / create-child workflows
\* ------------------------------------------------------------------------

Depth(id) == Len(parseId(Str(id)))

\* The last menu click handed the generator ids of incompatible depth.
LastCallLevelMismatch ==
    /\ ret.fn \in {"createNewSiblingCard", "createNewChildCard"}
    /\ ret.call[2] # Null
    /\ \/ ret.fn = "createNewSiblingCard"
          /\ Depth(ret.call[2]) # Depth(ret.call[1])
       \/ ret.fn = "createNewChildCard"
          /\ Depth(ret.call[2]) # Depth(ret.call[1]) + 1

\* C5: generateSiblingId throws when currentId and nextId differ in their
\* number of segments, generateChildId throws when firstChildId does not have
\* exactly one segment more than parentId; the menu click that ran into it
\* ends with the failure Notice carrying the error and the main box holds
\* exactly the cards it held before the click.
C5_LevelMismatchAbortsWorkflow ==
    /\ \A a, b \in cards :
           Depth(a) # Depth(b) =>
               /\ generateSiblingId(a, b).threw
               /\ generateSiblingId(a, b).error = "LevelMismatchSibling"
    /\ \A a, b \in cards :
           Depth(b) # Depth(a) + 1 =>
               /\ generateChildId(a, b).threw
               /\ generateChildId(a, b).error = "LevelMismatchChild"
    /\ LastCallLevelMismatch =>
           /\ ret.threw
           /\ ret.error = IF ret.fn = "createNewSiblingCard"
                          THEN "LevelMismatchSibling" ELSE "LevelMismatchChild"
           /\ notice.kind = IF ret.fn = "createNewSiblingCard"
                            THEN "siblingFailed" ELSE "childFailed"
           /\ notice.text = ret.error
           /\ cards = ret.before

C5_Witness ==
    /\ LastCallLevelMismatch
    /\ ret.fn = "createNewChildCard"
    /\ ret.threw
    /\ notice.kind = "childFailed"
    /\ cards = ret.before
    /\ \E a, b \in cards : Depth(a) # Depth(b)

\* ------------------------------------------------------------------------
\* Properties of the diagram contents
\* ------------------------------------------------------------------------

\* The id of the direct parent: the id without its last segment.
ParentId(id) == JoinStr(SubSeq(Split(id), 1, Len(Split(id)) - 1))

\* The root, and every card under the root's prefix whose direct parent is
\* connected in turn.
RECURSIVE Connected(_, _, _)
Connected(cardSet, rootId, id) ==
    \/ id = rootId /\ id \in cardSet
    \/ /\ id \in cardSet
       /\ StartsWith(id, rootId \o <<"-">>)
       /\ Len(Split(id)) > Len(Split(rootId))
       /\ Connected(cardSet, rootId, ParentId(id))

ConnectedCards(cardSet, rootId) ==
    {id \in cardSet : Connected(cardSet, rootId, id)}

Edges == ret.value.edges

\* C11: the node list of a computed diagram has exactly one node for the
\* root and for every card joined to the root by a chain of existing direct
\* parents, and no other node; a card under the root's prefix with a missing
\* ancestor is neither a node nor an endpoint of an edge.
C11_NodesAreTheConnectedCards ==
    (ret.fn = "calculateNodePositions" /\ rootCardId \in cards) =>
        /\ {Nodes[i].id : i \in 1..Len(Nodes)} = ConnectedCards(cards, rootCardId)
        /\ \A i, j \in 1..Len(Nodes) : Nodes[i].id = Nodes[j].id => i = j
        /\ \A k \in 1..Len(Edges) :
               /\ Edges[k].fromNode \in ConnectedCards(cards, rootCardId)
               /\ Edges[k].toNode \in ConnectedCards(cards, rootCardId)

\* 10-20-10-1 is under the root 10 and its parent 10-20-10 is missing.
C11_Witness ==
    /\ ret.fn = "calculateNodePositions"
    /\ rootCardId = Id10
    /\ cards = {Id10, Id10x20, C(<<10, 20, 10, 1>>), C(<<10, 9, 1>>)}
    /\ Len(Nodes) = 2
    /\ {Nodes[i].id : i \in 1..Len(Nodes)} = {Id10, Id10x20}

\* C12: the edge list of a computed diagram has exactly one edge, from the
\* parent's id to the child's id, for every parent and child of the built
\* tree and no other edge; a diagram of n >= 1 nodes has n - 1 edges.
C12_EdgesAreTheParentChildPairs ==
    (ret.fn = "calculateNodePositions" /\ rootCardId \in cards) =>
        /\ {<<Edges[k].fromNode, Edges[k].toNode>> : k \in 1..Len(Edges)}
               = {<<ParentId(c), c>> :
                      c \in ConnectedCards(cards, rootCardId) \ {rootCardId}}
        /\ {<<Edges[k].fromNode, Edges[k].toNode>> : k \in 1..Len(Edges)}
               = UNION {{<<ret.tree[n].id, ret.tree[n].children[i]>> :
                             i \in 1..Len(ret.tree[n].children)} :
                        n \in 1..Len(ret.tree)}
        /\ \A k, l \in 1..Len(Edges) :
               (Edges[k].fromNode = Edges[l].fromNode
                    /\ Edges[k].toNode = Edges[l].toNode) => k = l
        /\ \A k \in 1..Len(Edges) :
               Edges[k].id = EdgeId(Edges[k].fromNode, Edges[k].toNode)
        /\ Len(Edges) = Len(Nodes) - 1

\* A node with two children and a grandchild: four nodes, three edges.
C12_Witness ==
    /\ ret.fn = "calculateNodePositions"
    /\ rootCardId = Id10
    /\ cards = {Id10, Id10x10, Id10x20, C(<<10, 20, 10>>)}
    /\ Len(Nodes) = 4
    /\ Len(Edges) = 3
    /\ \E k \in 1..3 : Edges[k].fromNode = Id10 /\ Edges[k].toNode = Id10x20

ScenarioCards == {Id10, Id10x10, Id10x20, C(<<10, 20, 10>>)}

\* C17: for the cards {10, 10-10, 10-20, 10-20-10} and the root 10 the tree
\* has 10 at level 0 with the children [10-10, 10-20] in this order, 10-20 has
\* the one child 10-20-10, 10-10 and 10-20 are at level 1 at least a node
\* height apart, and 10 is at the midpoint of their y values.
C17_ScenarioTreeAndLayout ==
    (ret.fn = "calculateNodePositions" /\ rootCardId = Id10
         /\ cards = ScenarioCards) =>
        /\ ret.tree[1].id = Id10
        /\ ret.tree[1].level = 0
        /\ ret.tree[1].children = <<Id10x10, Id10x20>>
        /\ \A n \in 1..Len(ret.tree) :
               /\ ret.tree[n].id = Id10x20 =>
                      ret.tree[n].children = <<C(<<10, 20, 10>>)>>
               /\ ret.tree[n].id = Id10x10 => ret.tree[n].children = <<>>
               /\ ret.tree[n].id \in {Id10x10, Id10x20} => ret.tree[n].level = 1
        /\ NodeOf(Id10x10).x = LEVEL_WIDTH
        /\ NodeOf(Id10x20).x = LEVEL_WIDTH
        /\ NodeOf(Id10x20).y - NodeOf(Id10x10).y >= Px(NODE_HEIGHT)
        /\ 2 * NodeOf(Id10).y = NodeOf(Id10x10).y + NodeOf(Id10x20).y
        /\ ret.exact

C17_Witness ==
    /\ ret.fn = "calculateNodePositions"
    /\ rootCardId = Id10
    /\ cards = ScenarioCards
    /\ NodeOf(Id10x10).y = 0
    /\ NodeOf(Id10x20).y = Px(355)
    /\ NodeOf(C(<<10, 20, 10>>)).y = Px(355)
    /\ 2 * NodeOf(Id10).y = Px(355)

\* ------------------------------------------------------------------------
\* Properties of the ids the workflows choose
\* ------------------------------------------------------------------------

LastSeg(id) == Last(Segs(id))

\* The cards of cardSet that are direct children of id.
DirectChildren(cardSet, id) ==
    {c \in cardSet : Depth(c) = Depth(id) + 1 /\ ParentId(c) = id}

\* The cards of cardSet at the depth of id and under the same parent.
SiblingsOf(cardSet, id) ==
    {c \in cardSet : /\ Depth(c) = Depth(id)
                     /\ (Depth(id) > 1 => ParentId(c) = ParentId(id))}

\* The siblings of id with a larger last segment.
LaterSiblings(cardSet, id) ==
    {c \in SiblingsOf(cardSet, id) : LastSeg(c) > LastSeg(id)}

\* The later sibling with the smallest last segment.
NextSibling(cardSet, id) ==
    CHOOSE n \in LaterSiblings(cardSet, id) :
        \A c \in LaterSiblings(cardSet, id) : LastSeg(n) <= LastSeg(c)

\* C19: create-child on a parent that has a direct child succeeds with the id
\* parent + '-' + floor(m / 2), m being the smallest last segment among the
\* direct children, whatever deeper descendants exist.
C19_FirstChildAmongDirectChildren ==
    (ret.fn = "createNewChildCard"
         /\ DirectChildren(ret.before, ret.target) # {}) =>
        LET m == MinOf({LastSeg(c) : c \in DirectChildren(ret.before, ret.target)})
        IN  /\ ~ret.threw
            /\ ret.value = ret.target \o <<"-">> \o NumToStr(FloorHalf(m))

\* C20: create-sibling on a card C makes a card of C's depth and parent that
\* sorts after C; it sorts before C's next sibling N when there is one, which
\* succeeds whenever the last segments of C and N differ by at least 2, and
\* after every sibling when C is the last one.
C20_SiblingIsInsertedAfterCurrent ==
    ret.fn = "createNewSiblingCard" =>
        LET current == ret.target
            later == LaterSiblings(ret.before, current)
        IN  /\ ~ret.threw =>
                /\ cards = ret.before \cup {ret.value}
                /\ ret.value \notin ret.before
                /\ Depth(ret.value) = Depth(current)
                /\ Depth(current) > 1 => ParentId(ret.value) = ParentId(current)
                /\ compareIds(current, ret.value) < 0
                /\ later # {} =>
                       compareIds(ret.value, NextSibling(ret.before, current)) < 0
                /\ later = {} =>
                       \A c \in SiblingsOf(ret.before, current) :
                           compareIds(c, ret.value) < 0
            /\ later = {} => ~ret.threw
            /\ (later # {} /\ LastSeg(NextSibling(ret.before, current))
                                  - LastSeg(current) >= 2) => ~ret.threw

\* 10-10-10 was inserted between 10-10-5 and 10-10-15.
C20_Witness ==
    /\ ret.fn = "createNewSiblingCard"
    /\ ~ret.threw
    /\ ret.target = C(<<10, 10, 5>>)
    /\ C(<<10, 10, 15>>) \in ret.before
    /\ ret.value = C(<<10, 10, 10>>)
    /\ cards = ret.before \cup {C(<<10, 10, 10>>)}

\* ------------------------------------------------------------------------
\* Properties of the stored diagrams under the create and delete events
\* ------------------------------------------------------------------------

\* The knowledge-tree canvases in the folder.
TreeCanvases(cvs) ==
    {k \in DOMAIN cvs : cvs[k].exists /\ ~IsFalsy(cvs[k].rootCardId)}

\* The diagram a full computation gives for the root over the card set.
Recomputed(cardSet, rootId) ==
    calculateNodePositions(
        relatedCardsOf(getSortedMainCards(cardSet), rootId), rootId).value

NodeIds(data) == {data.nodes[i].id : i \in 1..Len(data.nodes)}

IsRecomputed(data, cardSet) ==
    /\ data.nodes = Recomputed(cardSet, data.rootCardId).nodes
    /\ data.edges = Recomputed(cardSet, data.rootCardId).edges

\* C13: the diagram is a function of the card set and the root, the id of an
\* edge is a function of its parent id and child id, and a run of
\* updateKnowledgeTreeCanvas on a canvas that holds the diagram of the
\* current cards leaves the stored canvas exactly as it was.
C13_RegenerationIsIdempotent ==
    ret.fn = "updateKnowledgeTreeCanvas" =>
        LET k == ret.canvas
        IN  /\ canvases[k].rootCardId = ret.stored[k].rootCardId
            /\ ~IsFalsy(canvases[k].rootCardId) =>
                   /\ IsRecomputed(canvases[k], cards)
                   /\ IsRecomputed(ret.stored[k], cards) => canvases = ret.stored
                   /\ updateKnowledgeTreeCanvas(canvases[k], cards) = canvases[k]
                   /\ \A e \in 1..Len(canvases[k].edges) :
                          canvases[k].edges[e].id =
                              EdgeId(canvases[k].edges[e].fromNode,
                                     canvases[k].edges[e].toNode)

\* The second of two runs on a diagram of four nodes.
C13_Witness ==
    /\ ret.fn = "updateKnowledgeTreeCanvas"
    /\ ret.canvas = "10.canvas"
    /\ IsRecomputed(ret.stored["10.canvas"], cards)
    /\ canvases = ret.stored
    /\ Len(canvases["10.canvas"].nodes) = 4
    /\ Len(canvases["10.canvas"].edges) = 3

C16_RootDeletionKeepsDiagram ==
    ret.fn = "delete" =>
        \A k \in TreeCanvases(ret.stored) :
            ret.target = ret.stored[k].rootCardId =>
                /\ canvases[k] = ret.stored[k]
                /\ canvases[k].exists
                /\ notice = [kind |-> "rootDeleted", text |-> k]

\* The root 10-20 of a diagram of two nodes was deleted.
C16_Witness ==
    /\ ret.fn = "delete"
    /\ ret.target = C(<<10, 20>>)
    /\ ret.stored["10-20.canvas"].exists
    /\ NodeIds(canvases["10-20.canvas"]) = {C(<<10, 20>>), C(<<10, 20, 10>>)}
    /\ Len(canvases["10-20.canvas"].edges) = 1
    /\ C(<<10, 20>>) \notin cards
    /\ notice = [kind |-> "rootDeleted", text |-> "10-20.canvas"]

\* ------------------------------------------------------------------------
\* Properties of overlapping handlers
\* ------------------------------------------------------------------------

AllHandlersDone ==
    /\ handlers # <<>>
    /\ \A i \in 1..Len(handlers) : handlers[i].pc = "done"

\* C18: the handlers of a diagram read the cards, lay them out and write the
\* diagram as one critical section, so that once every handler has finished
\* the stored diagram is the layout of the cards as they are then.
C18_HandlersAreSerialized ==
    AllHandlersDone => IsRecomputed(canvases[OverlapCanvas], cards)

\* ------------------------------------------------------------------------
\* Further properties of the allocator and of the layout
\* ------------------------------------------------------------------------

\* C21: on canonical ids an id returned by generateChildId is a direct child
\* of parentId: parentId's segments and one more.  With a first child whose
\* last segment is at least 1 the new last segment is not negative and
\* smaller than the first child's.
C21_ChildIdIsEarliestDirectChild ==
    ( /\ ret.fn = "generateChildId"
      /\ IsCanonical(idArgs.a.str)
      /\ idArgs.b = Null \/ IsCanonical(idArgs.b)
      /\ ~ret.threw ) =>
        LET par == Segs(idArgs.a.str)
            new == Segs(ret.value)
        IN  /\ IsCanonical(ret.value)
            /\ Len(new) = Len(par) + 1
            /\ SubSeq(new, 1, Len(par)) = par
            /\ StartsWith(ret.value, idArgs.a.str \o <<"-">>)
            /\ (idArgs.b # Null /\ Last(Segs(idArgs.b)) >= 1) =>
                   /\ Last(new) >= 0
                   /\ Last(new) < Last(Segs(idArgs.b))
                   /\ StartsWith(idArgs.b, idArgs.a.str \o <<"-">>) =>
                          compareIds(ret.value, idArgs.b) < 0

\* The first child 10-1 leaves room for 10-0 only.
C21_Witness ==
    /\ ret.fn = "generateChildId"
    /\ idArgs.a.str = Id10
    /\ idArgs.b = <<"1", "0", "-", "1">>
    /\ ~ret.threw
    /\ ret.value = <<"1", "0", "-", "0">>

TreeIds == {ret.tree[n].id : n \in 1..Len(ret.tree)}

TreeNodeOf(id) == ret.tree[CHOOSE n \in 1..Len(ret.tree) : ret.tree[n].id = id]

\* The nodes of the tree below id.
DescendantsOf(id) == {d \in TreeIds : StartsWith(d, id \o <<"-">>)}

\* C22: in the layout returned every node that has children is at the
\* midpoint of the smallest and the largest y of its children, the nodes
\* that were shifted down included.
C22_ParentIsAtMidpointOfChildren ==
    (ret.fn = "calculateNodePositions" /\ rootCardId \in cards) =>
        /\ ret.exact
        /\ \A n \in 1..Len(ret.tree) :
               ret.tree[n].children # <<>> =>
                   LET ys == {NodeOf(ret.tree[n].children[i]).y :
                                  i \in 1..Len(ret.tree[n].children)}
                   IN  2 * NodeOf(ret.tree[n].id).y = MinOf(ys) + MaxOf(ys)

\* 10-20 and its child were shifted below 10-10, and 10-20-10 with its own
\* child was shifted as part of that subtree.
C22_Witness ==
    /\ ret.fn = "calculateNodePositions"
    /\ rootCardId = Id10
    /\ cards = {Id10, Id10x10, Id10x20, C(<<10, 20, 10>>), C(<<10, 20, 10, 1>>)}
    /\ Len(ret.shifts) = 1
    /\ ret.shifts[1].node = Id10x20
    /\ NodeOf(Id10x20).y = Px(355)
    /\ NodeOf(C(<<10, 20, 10>>)).y = Px(355)
    /\ NodeOf(C(<<10, 20, 10, 1>>)).y = Px(355)
    /\ 2 * NodeOf(Id10).y = Px(355)

\* C23: a shift happens for a deficit d > 0 between the next free slot of the
\* node's level and its centred y; it moves the node and every descendant
\* down by d, advances the tracker of every level that holds a shifted
\* descendant by d, once, and leaves the trackers of the other levels alone.
C23_ShiftAdvancesTrackersOncePerDepth ==
    ret.fn = "calculateNodePositions" =>
        \A k \in 1..Len(ret.shifts) :
            LET s == ret.shifts[k]
                below == DescendantsOf(s.node)
            IN  /\ s.yOffset > 0
                /\ s.yOffset = s.nextBefore[s.level] - s.centred
                /\ s.yAfter[s.node] = s.centred + s.yOffset
                /\ \A x \in below : s.yAfter[x] = s.yBefore[x] + s.yOffset
                /\ \A x \in TreeIds \ (below \cup {s.node}) :
                       s.yAfter[x] = s.yBefore[x]
                /\ DOMAIN s.nextAfter = DOMAIN s.nextBefore
                /\ \A l \in DOMAIN s.nextBefore :
                       s.nextAfter[l] =
                           IF \E x \in below : TreeNodeOf(x).level = l
                           THEN s.nextBefore[l] + s.yOffset
                           ELSE s.nextBefore[l]

\* C24: in the built tree B is a child of A exactly when B has one segment
\* more than A and A's segments in front; the level of a node is its number
\* of segments less the root's, and its x is level * 720.
C24_ChildRelationAndLevels ==
    (ret.fn = "calculateNodePositions" /\ rootCardId \in cards) =>
        /\ \A a, b \in TreeIds :
               (\E i \in 1..Len(TreeNodeOf(a).children) :
                    TreeNodeOf(a).children[i] = b)
               <=> ( /\ Len(Segs(b)) = Len(Segs(a)) + 1
                     /\ SubSeq(Segs(b), 1, Len(Segs(a))) = Segs(a) )
        /\ \A a \in TreeIds :
               /\ TreeNodeOf(a).level = Len(Segs(a)) - Len(Segs(rootCardId))
               /\ TreeNodeOf(a).x = TreeNodeOf(a).level * 720
               /\ NodeOf(a).x = TreeNodeOf(a).level * 720

\* 10-20-10-1 is under 10 and 10-20 and is the child of 10-20-10 only.
C24_Witness ==
    /\ ret.fn = "calculateNodePositions"
    /\ rootCardId = Id10
    /\ cards = {Id10, Id10x20, C(<<10, 20, 10>>), C(<<10, 20, 10, 1>>)}
    /\ TreeNodeOf(Id10).children = <<Id10x20>>
    /\ TreeNodeOf(Id10x20).children = <<C(<<10, 20, 10>>)>>
    /\ TreeNodeOf(C(<<10, 20, 10, 1>>)).level = 3
    /\ NodeOf(C(<<10, 20, 10, 1>>)).x = 2160


\* ---------------------------------------------------------------------------
\* Properties of diagram creation and of the files the handlers write
\* ---------------------------------------------------------------------------

IsPlaceholderOnly(data) ==
    /\ data.exists
    /\ Len(data.nodes) = 1
    /\ data.nodes[1].id = <<"r", "o", "o", "t">>

NoDanglingEdges(data) ==
    \A i \in 1..Len(data.edges) :
        /\ data.edges[i].fromNode \in NodeIds(data)
        /\ data.edges[i].toNode \in NodeIds(data)

LastWasCardEvent == ret # NoCall /\ ret.fn \in {"create", "delete"}

LastWasCanvasCreation == ret # NoCall /\ ret.fn = "createKnowledgeTreeCanvas"

\* C25: after a createKnowledgeTreeCanvas that failed, no canvas file holds
\* only the placeholder node with id "root".
C25_FailedCreationLeavesNoPlaceholder ==
    (LastWasCanvasCreation /\ ret.threw)
        => \A k \in CanvasFiles : ~IsPlaceholderOnly(canvases[k])

\* C26: handling a card create or delete event never replaces a non-empty
\* node list of a stored diagram by an empty one.
C26_EventsNeverEmptyADiagram ==
    LastWasCardEvent
        => \A k \in CanvasFiles :
              (ret.stored[k].exists /\ ret.stored[k].nodes # <<>>)
                  => canvases[k].nodes # <<>>

\* C27: every edge of every stored diagram, and of every diagram as
\* removeNodeFromKnowledgeTree wrote it before the new layout, joins two nodes
\* of that diagram.
C27_NoDanglingEdges ==
    /\ \A k \in CanvasFiles : NoDanglingEdges(canvases[k])
    /\ (ret # NoCall /\ ret.fn = "delete")
          => \A k \in CanvasFiles : NoDanglingEdges(ret.removed[k])

\* A delete event removed a node that had edges, and the file written before
\* the new layout is a state of the diagram of its own.
C27_Witness ==
    /\ ret # NoCall /\ ret.fn = "delete"
    /\ \E k \in CanvasFiles :
          /\ ret.removed[k] # ret.stored[k]
          /\ ret.removed[k] # canvases[k]
          /\ Len(ret.removed[k].edges) < Len(ret.stored[k].edges)
          /\ ret.removed[k].edges # <<>>

\* C28: a card create or delete event changes only diagrams whose rootCardId is
\* the card's id or a dash-delimited prefix of it; no step changes the
\* rootCardId of a canvas file.
C28_EventsWriteOnlyRelatedDiagrams ==
    /\ LastWasCardEvent
          => \A k \in CanvasFiles :
                (\/ ~ret.stored[k].exists
                 \/ IsFalsy(ret.stored[k].rootCardId)
                 \/ ~IsRelated(ret.target, ret.stored[k].rootCardId))
                    => canvases[k] = ret.stored[k]
    /\ (ret # NoCall /\ ret.fn \in {"create", "delete", "update"})
          => \A k \in CanvasFiles :
                /\ canvases[k].exists = ret.stored[k].exists
                /\ canvases[k].rootCardId = ret.stored[k].rootCardId

\* A create event rewrote the diagram of one root and left alone a diagram of
\* an unrelated root that a new layout would have changed.
C28_Witness ==
    /\ ret # NoCall /\ ret.fn = "create"
    /\ \E k, j \in DOMAIN CanvasRoot :
          /\ canvases[k] # ret.stored[k]
          /\ ret.stored[j].exists
          /\ ~IsRelated(ret.target, ret.stored[j].rootCardId)
          /\ updateKnowledgeTreeCanvas(ret.stored[j], cards) # ret.stored[j]
          /\ canvases[j] = ret.stored[j]

\* C29: createKnowledgeTreeCanvas for a root whose canvas file exists throws,
\* the menu item shows the failure, and no canvas file is changed or created.
C29_ExistingDiagramIsRefused ==
    (LastWasCanvasCreation /\ ret.stored[ret.canvas].exists)
        => /\ ret.threw
           /\ notice # NoNotice
           /\ notice.kind = "canvasFailed"
           /\ canvases = ret.stored

\* The diagram was requested for a root whose computed diagram was stored.
C29_Witness ==
    /\ LastWasCanvasCreation
    /\ ret.stored[ret.canvas].exists
    /\ Len(ret.stored[ret.canvas].nodes) > 1
    /\ ret.threw


(***************************************************************************)
(* The sort patch of the main-box folder item (ui-manager).  The file      *)
(* explorer comes up in steps: its leaf, view.fileItems, the item of the   *)
(* main-box folder, the item's vChildren.  item.sort is a stack of         *)
(* wrappers around the explorer's own sort: "wraps" is its height and      *)
(* "patched" is the _zettelkastenPatched flag of the function on top.      *)
(***************************************************************************)
DefaultRetry == 5

PatchEvents ==
    {"layoutReady", "fileOpen", "create", "delete", "rename", "changed"}

\* patchMainBoxFileItemSort that does not look at _zettelkastenPatched.
patchMainBoxFileItemSortUnflagged(ex) ==
    IF ~ex.leaves THEN ex
    ELSE IF ~ex.fileItems THEN ex
    ELSE IF ex.item /\ ex.vChildren
    THEN [ex EXCEPT !.wraps = @ + 1, !.patched = TRUE]
    ELSE ex

\* patchMainBoxFileItemSort: the explorer it leaves.
patchMainBoxFileItemSort(ex) ==
    IF ~ex.leaves THEN ex
    ELSE IF ~ex.fileItems THEN ex
    ELSE IF ex.item /\ ~ex.patched /\ ex.vChildren
    THEN [ex EXCEPT !.wraps = @ + 1, !.patched = TRUE]
    ELSE ex

\* patchMainBoxFileItemSortWithRetry(retry, delay): the explorer it leaves and
\* whether it called setTimeout for retry - 1.
patchMainBoxFileItemSortWithRetry(ex, retry) ==
    IF ~ex.leaves THEN [explorer |-> ex, scheduled |-> FALSE]
    ELSE IF ~ex.fileItems THEN [explorer |-> ex, scheduled |-> retry > 0]
    ELSE IF ~ex.item THEN [explorer |-> ex, scheduled |-> retry > 0]
    ELSE [explorer |-> patchMainBoxFileItemSort(ex), scheduled |-> FALSE]

\* One call of item.sort through its wrappers: how often the explorer's own
\* sort and the card-id sort of vChildren._children run.
RECURSIVE SortCalls(_)
SortCalls(wraps) ==
    IF wraps = 0 THEN [originalCalls |-> 1, customSorts |-> 0]
    ELSE LET inner == SortCalls(wraps - 1)
         IN  [originalCalls |-> inner.originalCalls,
              customSorts |-> inner.customSorts + 1]

InitPatch ==
    /\ cards = {}
    /\ rootCardId = <<>>
    /\ idArgs = [a |-> Str(<<>>), b |-> <<>>, c |-> <<>>]
    /\ notice = NoNotice
    /\ ret = NoCall
    /\ canvases = NoCanvases
    /\ handlers = <<>>
    /\ explorer \in {NoExplorer, [NoExplorer EXCEPT !.leaves = TRUE]}
    /\ timers = <<>>
    /\ chains = <<>>

LeafOpens ==
    /\ ~explorer.leaves
    /\ explorer' = [explorer EXCEPT !.leaves = TRUE]
    /\ UNCHANGED <<cards, rootCardId, idArgs, notice, ret, canvases, handlers,
                   timers, chains>>

ViewBuildsFileItems ==
    /\ explorer.leaves /\ ~explorer.fileItems
    /\ explorer' = [explorer EXCEPT !.fileItems = TRUE]
    /\ UNCHANGED <<cards, rootCardId, idArgs, notice, ret, canvases, handlers,
                   timers, chains>>

MainBoxItemAppears ==
    /\ explorer.fileItems /\ ~explorer.item
    /\ explorer' = [explorer EXCEPT !.item = TRUE]
    /\ UNCHANGED <<cards, rootCardId, idArgs, notice, ret, canvases, handlers,
                   timers, chains>>

ItemRendersChildren ==
    /\ explorer.item /\ ~explorer.vChildren
    /\ explorer' = [explorer EXCEPT !.vChildren = TRUE]
    /\ UNCHANGED <<cards, rootCardId, idArgs, notice, ret, canvases, handlers,
                   timers, chains>>

\* onLayoutReady, file-open, create, delete, rename, metadata changed: each
\* calls patchMainBoxFileItemSortWithRetry() and so starts a retry chain.
PatchEvent ==
    \E ev \in PatchEvents :
        /\ Len(chains) < MaxChains
        /\ \E o \in {patchMainBoxFileItemSortWithRetry(explorer, DefaultRetry)} :
               /\ explorer' = o.explorer
               /\ timers' = IF o.scheduled
                            THEN Append(timers, [chain |-> Len(chains) + 1,
                                                 retry |-> DefaultRetry - 1])
                            ELSE timers
        /\ chains' = Append(chains, 1)
        /\ ret' = [fn |-> "patchMainBoxFileItemSortWithRetry", event |-> ev,
                   chain |-> Len(chains) + 1]
        /\ UNCHANGED <<cards, rootCardId, idArgs, notice, canvases, handlers>>

\* The oldest pending timer fires (every timer has the same delay).
TimerFires ==
    /\ timers # <<>>
    /\ LET t == Head(timers)
       IN  /\ \E o \in {patchMainBoxFileItemSortWithRetry(explorer, t.retry)} :
                  /\ explorer' = o.explorer
                  /\ timers' = IF o.scheduled
                               THEN Append(Tail(timers),
                                           [chain |-> t.chain,
                                            retry |-> t.retry - 1])
                               ELSE Tail(timers)
           /\ chains' = [c \in 1..Len(chains) |->
                            IF c = t.chain THEN chains[c] + 1 ELSE chains[c]]
           /\ ret' = [fn |-> "patchMainBoxFileItemSortWithRetry",
                      event |-> "timer", chain |-> t.chain]
    /\ UNCHANGED <<cards, rootCardId, idArgs, notice, canvases, handlers>>

\* The explorer sorts the main-box folder: it calls item.sort().
ExplorerSorts ==
    /\ explorer.item
    /\ \E o \in {SortCalls(explorer.wraps)} :
           ret' = [fn |-> "sort", originalCalls |-> o.originalCalls,
                   customSorts |-> o.customSorts]
    /\ UNCHANGED <<cards, rootCardId, idArgs, notice, canvases, handlers,
                   explorer, timers, chains>>

NextPatch ==
    \/ LeafOpens
    \/ ViewBuildsFileItems
    \/ MainBoxItemAppears
    \/ ItemRendersChildren
    \/ PatchEvent
    \/ TimerFires
    \/ ExplorerSorts

SpecPatch == InitPatch /\ [][NextPatch]_vars

\* ---------------------------------------------------------------------------
\* Properties of the sort patch
\* ---------------------------------------------------------------------------

PendingTimersOf(c) == {i \in 1..Len(timers) : timers[i].chain = c}

\* C30: item.sort is wrapped at most once, so a sort call runs the explorer's
\* own sort exactly once and the card-id sort at most once; a retry chain
\* makes at most DefaultRetry + 1 attempts and has no timer pending after the
\* last of them.
C30_SortWrappedOnceAndRetriesBounded ==
    /\ explorer.wraps <= 1
    /\ explorer.patched <=> explorer.wraps = 1
    /\ (ret # NoCall /\ ret.fn = "sort")
          => /\ ret.originalCalls = 1
             /\ ret.customSorts = explorer.wraps
    /\ \A c \in 1..Len(chains) :
          /\ chains[c] <= DefaultRetry + 1
          /\ Cardinality(PendingTimersOf(c)) <= 1
          /\ chains[c] = DefaultRetry + 1 => PendingTimersOf(c) = {}

\* One chain used up all its attempts before the item appeared, an
\* overlapping chain patched the item on a retry, and the patched sort ran.
C30_Witness ==
    /\ Len(chains) = 2
    /\ chains[1] = DefaultRetry + 1
    /\ chains[2] > 1
    /\ chains[2] < DefaultRetry + 1
    /\ timers = <<>>
    /\ explorer.patched
    /\ ret # NoCall /\ ret.fn = "sort" /\ ret.customSorts = 1

====
